---- MODULE Spec2Model ----
(***************************************************************************)
(* The command-line entry point of squabble (squabble/__main__.py): main,  *)
(* lint_file, collect_files, show_rule, list_rules and list_presets.       *)
(*                                                                         *)
(* A path is the sequence of its components (<<"d", "sub", "c.sql">> is    *)
(* d/sub/c.sql); the empty sequence stands for "no path" (Python's None).  *)
(* An option value is None or a non-empty string.                          *)
(***************************************************************************)
EXTENDS Integers, Sequences, FiniteSets, TLC

\* Longest PATHS argument list explored.
MaxPaths == 3

None == "None"
NoPath == <<>>

----------------------------------------------------------------------------
(* The file system main runs against. *)

HomeDir == <<"home">>

FsDirs ==
    { <<"d">>, <<"d", "sub">>, <<"d", ".hid">>, <<"d", "sub", "x.sql">>,
      <<"home">> }

FsFiles ==
    { <<"a.sql">>, <<"notes.txt">>, <<"cfg.json">>, <<".squabblerc">>,
      <<"d", "b.sql">>, <<"d", ".h.sql">>, <<"d", "sub", "c.sql">>,
      <<"d", ".hid", "e.sql">>, <<"home", "q.sql">> }

\* os.path.exists
Exists(path) == path \in FsDirs \cup FsFiles

\* os.path.isdir
IsDir(path) == path \in FsDirs

\* os.path.expanduser: a leading ~ component becomes the home directory.
expanduser(path) ==
    IF path # <<>> /\ Head(path) = "~" THEN HomeDir \o Tail(path) ELSE path

\* os.path.join(dirname, name)
join(dirname, name) == Append(dirname, name)

\* glob._ishidden: the name starts with a dot.
ishidden(name) == name \in {".h.sql", ".hid", ".squabblerc"}

\* fnmatch of a name against the pattern *.sql
MatchesSql(name) ==
    name \in {"a.sql", "b.sql", ".h.sql", "c.sql", "e.sql", "x.sql", "q.sql"}

\* The names os.scandir finds in a directory.
listdir(dirname) ==
    { p[Len(p)] : p \in { q \in FsDirs \cup FsFiles :
                            /\ Len(q) = Len(dirname) + 1
                            /\ SubSeq(q, 1, Len(dirname)) = dirname } }

\* All the orders in which a set can be enumerated.
Perms(S) ==
    { s \in [1..Cardinality(S) -> S] :
        \A i, j \in 1..Cardinality(S) : i # j => s[i] # s[j] }

\* The order in which os.scandir yields the names of each directory is the
\* file system's choice: one function from directories to enumerations.
RECURSIVE ScanOrdersOf(_)
ScanOrdersOf(dirs) ==
    IF dirs = {} THEN { <<>> }
    ELSE LET d == CHOOSE x \in dirs : TRUE
         IN { (d :> s) @@ f : s \in Perms(listdir(d)),
                              f \in ScanOrdersOf(dirs \ {d}) }

ScanOrders == ScanOrdersOf(FsDirs)

RECURSIVE Flatten(_)
Flatten(ss) == IF ss = <<>> THEN <<>> ELSE Head(ss) \o Flatten(Tail(ss))

\* glob._glob1(dirname, '*.sql', dironly=False): the names of dirname that
\* are not hidden and match the pattern, files and directories alike.
glob1(dirname, ord) ==
    LET names == SelectSeq(ord[dirname],
                           LAMBDA n : ~ishidden(n) /\ MatchesSql(n))
    IN [i \in 1..Len(names) |-> join(dirname, names[i])]

\* glob._rlistdir(dirname, dironly=True): every directory below dirname that
\* is reached through directories that are not hidden, parents first.
RECURSIVE rlistdir(_, _)
rlistdir(dirname, ord) ==
    LET subs == SelectSeq(ord[dirname],
                          LAMBDA n : ~ishidden(n) /\ IsDir(join(dirname, n)))
    IN Flatten([i \in 1..Len(subs) |->
                  <<join(dirname, subs[i])>>
                      \o rlistdir(join(dirname, subs[i]), ord)])

\* glob._glob2(dirname, '**', dironly=True): dirname itself, then rlistdir.
glob2(dirname, ord) == <<dirname>> \o rlistdir(dirname, ord)

\* glob.iglob(os.path.join(path, '**/*.sql'), recursive=True)
iglob(path, ord) ==
    LET dirs == glob2(path, ord)
    IN Flatten([i \in 1..Len(dirs) |-> glob1(dirs[i], ord)])

----------------------------------------------------------------------------
(* collect_files *)

\* The loop of collect_files: the first path that does not exist ends the
\* process; a directory contributes its glob, anything else itself.
RECURSIVE collect_loop(_, _, _)
collect_loop(paths, ord, files) ==
    IF paths = <<>> THEN [ok |-> TRUE, files |-> files, missing |-> NoPath]
    ELSE LET path == expanduser(Head(paths))
         IN IF ~Exists(path)
            THEN [ok |-> FALSE, files |-> files, missing |-> path]
            ELSE IF IsDir(path)
            THEN collect_loop(Tail(paths), ord, files \o iglob(path, ord))
            ELSE collect_loop(Tail(paths), ord, Append(files, path))

\* A collect_files that passes over a path that does not exist.
RECURSIVE collect_skip_loop(_, _, _)
collect_skip_loop(paths, ord, files) ==
    IF paths = <<>> THEN [ok |-> TRUE, files |-> files, missing |-> NoPath]
    ELSE LET path == expanduser(Head(paths))
         IN IF ~Exists(path)
            THEN collect_skip_loop(Tail(paths), ord, files)
            ELSE IF IsDir(path)
            THEN collect_skip_loop(Tail(paths), ord, files \o iglob(path, ord))
            ELSE collect_skip_loop(Tail(paths), ord, Append(files, path))

collect_files_skipping(paths, ord) == collect_skip_loop(paths, ord, <<>>)

collect_files(paths, ord) == collect_loop(paths, ord, <<>>)

----------------------------------------------------------------------------
(* The collaborators of main: squabble.config, squabble.rule, squabble.lint *)

\* config.PRESETS
Presets == {"full"}

\* What config.discover_config_location may hand back: nothing, the
\* .squabblerc of the working directory, or a location that is not there
\* when main looks at it.
DiscoverResults == { NoPath, <<".squabblerc">>, <<"home", ".squabblerc">> }

\* config.load_config(config_file, preset): the base configuration.
load_config(config_file, preset) ==
    [ reporter |-> IF config_file = <<"cfg.json">> THEN "sqlint" ELSE "plain",
      plugins  |-> IF config_file = <<"cfg.json">> THEN {"plugins_dir"} ELSE {},
      preset   |-> preset ]

NoConfig == [reporter |-> None, plugins |-> {}, preset |-> None]

\* The registry after rule.load_rules(plugin_paths): the built-in rules and
\* the rules of each plugin path.
Builtins == {"AddColumnDisallowConstraints", "RequirePrimaryKey"}

load_rules(plugin_paths) ==
    Builtins \cup (IF "plugins_dir" \in plugin_paths THEN {"PluginRule"} ELSE {})

\* config.apply_file_config(base_config, file_name)
apply_file_config(base, file_name) ==
    [reporter |-> base.reporter, plugins |-> base.plugins,
     preset |-> base.preset, file |-> file_name]

\* Severities of the findings of each file.
Findings(file_name) ==
    CASE file_name = <<"a.sql">> -> <<"LOW">>
      [] file_name = <<"d", "sub", "c.sql">> -> <<"CRITICAL", "LOW">>
      [] file_name = <<"notes.txt">> -> <<"HIGH">>
      [] OTHER -> <<>>

\* lint.check_file(file_config, file_name): the issues of one file.
check_file(file_config, file_name) ==
    [i \in 1..Len(Findings(file_name)) |->
        [file |-> file_name, severity |-> Findings(file_name)[i], n |-> i]]

\* lint_file
lint_file(base, file_name) ==
    check_file(apply_file_config(base, file_name), file_name)

----------------------------------------------------------------------------
(* main *)

\* The existence test main makes on the resolved configuration file.
ConfigFileMissingInverted(config_file) ==
    config_file # NoPath /\ Exists(config_file)

ConfigFileMissing(config_file) ==
    config_file # NoPath /\ ~Exists(config_file)

\* The plugin paths main hands to rule.load_rules.
NoPluginPaths(base) == {}

PluginPathsArg(base) == base.plugins

\* Which branch main takes once configuration and rules are loaded.
DispatchShowRuleFirst(a) ==
    IF a.showRule # None THEN "show_rule"
    ELSE IF a.listRules THEN "list_rules"
    ELSE "collect"

Dispatch(a) ==
    IF a.listRules THEN "list_rules"
    ELSE IF a.showRule # None THEN "show_rule"
    ELSE "collect"

\* The exit status main derives from the issue list.
ExitStatusBySeverity(iss) ==
    IF \E i \in 1..Len(iss) : iss[i].severity = "CRITICAL" THEN 1 ELSE 0

ExitStatus(iss) == IF iss # <<>> THEN 1 ELSE 0

PathArgs ==
    { <<"a.sql">>, <<"notes.txt">>, <<"d">>, <<"d", "b.sql">>, <<"missing">>,
      <<"~", "q.sql">> }

PathSeqs == UNION { [1..n -> PathArgs] : n \in 0..MaxPaths }

ConfigArgs == { NoPath, <<"cfg.json">>, <<"nocfg.json">> }

PresetArgs == { None, "full", "nosuchpreset" }

ShowRuleArgs == { None, "RequirePrimaryKey", "Bogus" }

VARIABLES
    args,         \* docopt's result
    pc,           \* where main is
    config_file,  \* main's config_file
    base_config,  \* main's base_config
    registry,     \* rule.Registry: the names registered
    files,        \* main's files
    idx,          \* position of the lint loop in files
    issues,       \* main's issues
    output,       \* what has been printed on stdout, in order
    exit,         \* <<>> while running, <<status>> once the process ended
    err,          \* why the process ended with an error, or None
    cfgLoads,     \* history: the calls of config.load_config
    loadCalls,    \* history: the plugin_paths of each rule.load_rules call
    collected,    \* history: collect_files was called
    lintLog,      \* history: the file of each lint_file call, in order
    lintFailed,   \* history: the files whose lint_file call raised
    reports       \* history: the arguments of each reporter.report call

vars == << args, pc, config_file, base_config, registry, files, idx, issues,
           output, exit, err, cfgLoads, loadCalls, collected, lintLog,
           lintFailed, reports >>

\* docopt has parsed the command line (--help and --version end the
\* process inside docopt; --verbose only sets the log level).
Init ==
    /\ args \in [ paths : PathSeqs, preset : PresetArgs,
                  listPresets : BOOLEAN, config : ConfigArgs,
                  listRules : BOOLEAN, showRule : ShowRuleArgs ]
    /\ pc = "start"
    /\ config_file = NoPath
    /\ base_config = NoConfig
    /\ registry = {}
    /\ files = <<>>
    /\ idx = 1
    /\ issues = <<>>
    /\ output = <<>>
    /\ exit = <<>>
    /\ err = None
    /\ cfgLoads = 0
    /\ loadCalls = <<>>
    /\ collected = FALSE
    /\ lintLog = <<>>
    /\ lintFailed = <<>>
    /\ reports = <<>>

\* sys.exit(message): the message goes to stderr and the status is 1.
\* An uncaught exception ends the process the same way, with a traceback.
Die(where, why) ==
    /\ pc' = where
    /\ exit' = <<1>>
    /\ err' = why

\* main returns: the interpreter exits with status 0.
Return ==
    /\ pc' = "returned"
    /\ exit' = <<0>>
    /\ err' = None

\* if args['--list-presets']: return list_presets()
ListPresets ==
    /\ pc = "start"
    /\ args.listPresets
    /\ output' = Append(output, "presets")
    /\ Return
    /\ UNCHANGED << args, config_file, base_config, registry, files, idx,
                    issues, cfgLoads, loadCalls, collected, lintLog,
                    lintFailed, reports >>

\* config_file = args['--config'] or config.discover_config_location(),
\* and the file is not there: sys.exit.
ConfigNotFound ==
    /\ pc = "start"
    /\ ~args.listPresets
    /\ \E found \in DiscoverResults :
          LET cf == IF args.config # NoPath THEN args.config ELSE found
          IN /\ ConfigFileMissing(cf)
             /\ config_file' = cf
    /\ Die("exited", "config_missing")
    /\ UNCHANGED << args, base_config, registry, files, idx, issues, output,
                    cfgLoads, loadCalls, collected, lintLog, lintFailed,
                    reports >>

\* The same statements when the test of line 50 is false.
ConfigResolved ==
    /\ pc = "start"
    /\ ~args.listPresets
    /\ \E found \in DiscoverResults :
          LET cf == IF args.config # NoPath THEN args.config ELSE found
          IN /\ ~ConfigFileMissing(cf)
             /\ config_file' = cf
    /\ pc' = "load_config"
    /\ UNCHANGED << args, base_config, registry, files, idx, issues, output,
                    exit, err, cfgLoads, loadCalls, collected, lintLog,
                    lintFailed, reports >>

\* base_config = config.load_config(config_file, preset)
LoadConfig ==
    /\ pc = "load_config"
    /\ args.preset \in Presets \cup {None}
    /\ base_config' = load_config(config_file, args.preset)
    /\ cfgLoads' = cfgLoads + 1
    /\ pc' = "load_rules"
    /\ UNCHANGED << args, config_file, registry, files, idx, issues, output,
                    exit, err, loadCalls, collected, lintLog, lintFailed,
                    reports >>

\* config.load_config raises on a preset that is not in config.PRESETS.
LoadConfigRaises ==
    /\ pc = "load_config"
    /\ args.preset \notin Presets \cup {None}
    /\ cfgLoads' = cfgLoads + 1
    /\ Die("crashed", "load_config_raised")
    /\ UNCHANGED << args, config_file, base_config, registry, files, idx,
                    issues, output, loadCalls, collected, lintLog, lintFailed,
                    reports >>

\* rule.load_rules(plugin_paths=base_config.plugins)
LoadRules ==
    /\ pc = "load_rules"
    /\ loadCalls' = Append(loadCalls, PluginPathsArg(base_config))
    /\ registry' = registry \cup load_rules(PluginPathsArg(base_config))
    /\ pc' = Dispatch(args)
    /\ UNCHANGED << args, config_file, base_config, files, idx, issues,
                    output, exit, err, cfgLoads, collected, lintLog,
                    lintFailed, reports >>

\* rule.load_rules raises on a plugin path it cannot load.
LoadRulesRaises ==
    /\ pc = "load_rules"
    /\ PluginPathsArg(base_config) # {}
    /\ loadCalls' = Append(loadCalls, PluginPathsArg(base_config))
    /\ Die("crashed", "load_rules_raised")
    /\ UNCHANGED << args, config_file, base_config, registry, files, idx,
                    issues, output, cfgLoads, collected, lintLog, lintFailed,
                    reports >>

\* return list_rules()
ListRules ==
    /\ pc = "list_rules"
    /\ output' = Append(output, "rule_list")
    /\ Return
    /\ UNCHANGED << args, config_file, base_config, registry, files, idx,
                    issues, cfgLoads, loadCalls, collected, lintLog,
                    lintFailed, reports >>

\* return show_rule(name), the name registered
ShowRule ==
    /\ pc = "show_rule"
    /\ args.showRule \in registry
    /\ output' = Append(output, "rule_detail")
    /\ Return
    /\ UNCHANGED << args, config_file, base_config, registry, files, idx,
                    issues, cfgLoads, loadCalls, collected, lintLog,
                    lintFailed, reports >>

\* show_rule(name), rule.Registry.get_meta raising UnknownRuleException
ShowRuleUnknown ==
    /\ pc = "show_rule"
    /\ args.showRule \notin registry
    /\ Die("exited", "unknown_rule")
    /\ UNCHANGED << args, config_file, base_config, registry, files, idx,
                    issues, output, cfgLoads, loadCalls, collected, lintLog,
                    lintFailed, reports >>

\* files = collect_files(paths), every path there
CollectFiles ==
    /\ pc = "collect"
    /\ \E ord \in ScanOrders :
          /\ collect_files(args.paths, ord).ok
          /\ files' = collect_files(args.paths, ord).files
    /\ collected' = TRUE
    /\ issues' = <<>>
    /\ idx' = 1
    /\ pc' = "lint"
    /\ UNCHANGED << args, config_file, base_config, registry, output, exit,
                    err, cfgLoads, loadCalls, lintLog, lintFailed, reports >>

\* collect_files(paths) ending the process at a path that does not exist
CollectFilesExits ==
    /\ pc = "collect"
    /\ \E ord \in ScanOrders : ~collect_files(args.paths, ord).ok
    /\ collected' = TRUE
    /\ Die("exited", "path_missing")
    /\ UNCHANGED << args, config_file, base_config, registry, files, idx,
                    issues, output, cfgLoads, loadCalls, lintLog, lintFailed,
                    reports >>

\* issues += lint_file(base_config, file_name)
LintFile ==
    /\ pc = "lint"
    /\ idx <= Len(files)
    /\ lintLog' = Append(lintLog, files[idx])
    /\ issues' = issues \o lint_file(base_config, files[idx])
    /\ idx' = idx + 1
    /\ UNCHANGED << args, pc, config_file, base_config, registry, files,
                    output, exit, err, cfgLoads, loadCalls, collected,
                    lintFailed, reports >>

\* lint_file(base_config, file_name) with config.apply_file_config or
\* lint.check_file raising: neither lint_file nor main has a handler.
LintFileRaises ==
    /\ pc = "lint"
    /\ idx <= Len(files)
    /\ lintLog' = Append(lintLog, files[idx])
    /\ lintFailed' = Append(lintFailed, files[idx])
    /\ Die("crashed", "lint_file_raised")
    /\ UNCHANGED << args, config_file, base_config, registry, files, idx,
                    issues, output, cfgLoads, loadCalls, collected, reports >>

\* reporter.report(base_config.reporter, issues)
Report ==
    /\ pc = "lint"
    /\ idx > Len(files)
    /\ reports' = Append(reports,
                         [reporter |-> base_config.reporter, issues |-> issues])
    /\ pc' = "status"
    /\ UNCHANGED << args, config_file, base_config, registry, files, idx,
                    issues, output, exit, err, cfgLoads, loadCalls, collected,
                    lintLog, lintFailed >>

\* if issues: sys.exit(1)
ExitWithIssues ==
    /\ pc = "status"
    /\ ExitStatus(issues) = 1
    /\ Die("exited", None)
    /\ UNCHANGED << args, config_file, base_config, registry, files, idx,
                    issues, output, cfgLoads, loadCalls, collected, lintLog,
                    lintFailed, reports >>

\* main falls off its end
ReturnClean ==
    /\ pc = "status"
    /\ ExitStatus(issues) = 0
    /\ Return
    /\ UNCHANGED << args, config_file, base_config, registry, files, idx,
                    issues, output, cfgLoads, loadCalls, collected, lintLog,
                    lintFailed, reports >>

Next ==
    \/ ListPresets
    \/ ConfigNotFound
    \/ ConfigResolved
    \/ LoadConfig
    \/ LoadConfigRaises
    \/ LoadRules
    \/ LoadRulesRaises
    \/ ListRules
    \/ ShowRule
    \/ ShowRuleUnknown
    \/ CollectFiles
    \/ CollectFilesExits
    \/ LintFile
    \/ LintFileRaises
    \/ Report
    \/ ExitWithIssues
    \/ ReturnClean

Spec == Init /\ [][Next]_vars

Terminated == exit # <<>>

----------------------------------------------------------------------------
(* Properties *)

Range(s) == { s[i] : i \in 1..Len(s) }

\* Some element of PATHS names nothing in the file system.
AnyPathMissing ==
    \E i \in 1..Len(args.paths) : ~Exists(expanduser(args.paths[i]))

\* --config names a file that is not there.
ExplicitConfigMissing == args.config # NoPath /\ ~Exists(args.config)

\* --show-rule names a rule that no load registers.
UnknownRuleGiven ==
    /\ args.showRule # None
    /\ \A pp \in SUBSET {"plugins_dir"} : args.showRule \notin load_rules(pp)

\* The run got past setup and into the lint loop.
ReachedLintLoop == collected /\ err # "path_missing"

C2_Original ==
    ExplicitConfigMissing =>
        /\ cfgLoads = 0
        /\ lintLog = <<>>
        /\ Terminated => (err = "config_missing" /\ exit = <<1>>)

\* C2 amended: the same, the error being raised unless --list-presets is
\* given; config.load_config and lint_file are never called either way.
C2_Amended ==
    ExplicitConfigMissing =>
        /\ cfgLoads = 0
        /\ lintLog = <<>>
        /\ (Terminated /\ ~args.listPresets) =>
               (err = "config_missing" /\ exit = <<1>>)

\* main ended on the missing --config file, with paths to lint at hand.
C2_Witness ==
    /\ ExplicitConfigMissing
    /\ ~args.listPresets
    /\ args.paths # <<>>
    /\ ~AnyPathMissing
    /\ err = "config_missing"
    /\ exit = <<1>>

SetupErrors ==
    { "config_missing", "path_missing", "unknown_rule", "load_config_raised",
      "load_rules_raised" }

\* What holds of setup errors and of missing paths, in C3 as stated and as
\* amended: a setup error ends the process with status 1 with nothing linted
\* or reported, and a path that does not exist, at any position, keeps
\* lint_file and the reporter from ever being called and ends collect_files
\* with an error.
SetupErrorsComeFirst ==
    /\ err \in SetupErrors =>
           (exit = <<1>> /\ lintLog = <<>> /\ reports = <<>>)
    /\ AnyPathMissing =>
           /\ lintLog = <<>>
           /\ reports = <<>>
           /\ collected => (err = "path_missing" /\ exit = <<1>>)

\* C3 as stated: setup errors come before any linting, and an unknown rule
\* name given to --show-rule ends the process with an error and without any
\* rule metadata printed.
C3_Original ==
    /\ SetupErrorsComeFirst
    /\ (UnknownRuleGiven /\ Terminated) =>
           /\ exit = <<1>>
           /\ "rule_detail" \notin Range(output)
           /\ "rule_list" \notin Range(output)

\* C3 amended: the same, the unknown rule name being an error when neither
\* --list-presets nor --list-rules is given.
C3_Amended ==
    /\ SetupErrorsComeFirst
    /\ (UnknownRuleGiven /\ ~args.listPresets /\ ~args.listRules /\ Terminated) =>
           /\ exit = <<1>>
           /\ "rule_detail" \notin Range(output)
           /\ "rule_list" \notin Range(output)

\* collect_files ended the process at a missing path that follows one that
\* exists.
C3_Witness ==
    /\ Len(args.paths) >= 2
    /\ Exists(expanduser(args.paths[1]))
    /\ ~Exists(expanduser(args.paths[2]))
    /\ collected
    /\ err = "path_missing"
    /\ exit = <<1>>
    /\ lintLog = <<>>

\* C4: with no --config, whatever config.discover_config_location returns,
\* main never ends on the missing-file error and goes on to
\* config.load_config.
C4_Original ==
    (args.config = NoPath) =>
        /\ err # "config_missing"
        /\ (Terminated /\ ~args.listPresets) => cfgLoads = 1

\* C5 as stated, read of the processes that end without a setup error: each
\* loads the rule registry exactly once, with the plugin paths of the base
\* configuration, before the first lint_file call and never after.
C5_Original ==
    /\ (Terminated /\ err = None) => Len(loadCalls) = 1
    /\ Len(loadCalls) <= 1
    /\ loadCalls # <<>> => loadCalls = << base_config.plugins >>
    /\ lintLog # <<>> =>
           (Len(loadCalls) = 1 /\ registry = load_rules(base_config.plugins))

\* C5 amended: the registry is loaded at most once per process, and exactly
\* once in every process in which main gets past config.load_config; the
\* load is made with the plugin paths of the base configuration and has
\* completed before the first lint_file call, and from then on there is no
\* further load and the registry stays as that load left it.
C5_Amended ==
    /\ Len(loadCalls) <= 1
    /\ pc \in {"list_rules", "show_rule", "collect", "lint", "status"} =>
           Len(loadCalls) = 1
    /\ (cfgLoads = 1 /\ err # "load_config_raised" /\ Terminated) =>
           Len(loadCalls) = 1
    /\ loadCalls # <<>> => loadCalls = << base_config.plugins >>
    /\ lintLog # <<>> =>
           (Len(loadCalls) = 1 /\ registry = load_rules(base_config.plugins))

\* Two files have been linted after one load with a plugin path.
C5_Witness ==
    /\ Len(lintLog) >= 2
    /\ loadCalls = << {"plugins_dir"} >>
    /\ "PluginRule" \in registry

\* The files of a list, each once, in the order of their first occurrence.
RECURSIVE Distinct(_)
Distinct(s) ==
    IF s = <<>> THEN <<>>
    ELSE LET rest == Distinct(SubSeq(s, 1, Len(s) - 1))
         IN IF s[Len(s)] \in Range(rest) THEN rest
            ELSE Append(rest, s[Len(s)])

\* C6: each distinct file is linted exactly once and the aggregate handed to
\* the reporter is the concatenation, in file order, of the issues of each
\* distinct file, each once.
C6_Original ==
    /\ \A i, j \in 1..Len(lintLog) : i # j => lintLog[i] # lintLog[j]
    /\ reports # <<>> =>
           LET fs == Distinct(files)
           IN reports[1].issues =
                  Flatten([i \in 1..Len(fs) |-> lint_file(base_config, fs[i])])

\* C7: a lint_file call that fails never aborts the run: every file is still
\* processed and the reporter is still invoked.
C7_Original ==
    lintFailed # <<>> =>
        /\ pc # "crashed"
        /\ Terminated => (Len(lintLog) = Len(files) /\ Len(reports) = 1)

\* C8: in every lint run that passes setup the reporter is invoked exactly
\* once, after lint_file has returned for every collected file, with the
\* whole issue list and the reporter of the base configuration, also when
\* the list is empty; the exit status comes after.
C8_Original ==
    /\ Len(reports) <= 1
    /\ reports # <<>> =>
           /\ Len(lintLog) = Len(files)
           /\ lintFailed = <<>>
           /\ reports[1] =
                  [reporter |-> base_config.reporter, issues |-> issues]
    /\ (ReachedLintLoop /\ Terminated) => Len(reports) = 1

\* f lies below the directory dir.
Under(f, dir) == Len(f) > Len(dir) /\ SubSeq(f, 1, Len(dir)) = dir

\* What C9 says of the result fs for the arguments paths: in the order of
\* paths, a path that names a file contributes itself as given, and a path
\* that names a directory contributes the files below it, at any depth,
\* whose names end in .sql, and nothing else.
RECURSIVE AsClaimed(_, _)
AsClaimed(paths, fs) ==
    IF paths = <<>> THEN fs = <<>>
    ELSE LET p == Head(paths)
             want == IF IsDir(expanduser(p))
                     THEN { f \in FsFiles : Under(f, expanduser(p))
                                             /\ MatchesSql(f[Len(f)]) }
                     ELSE { p }
             n == Cardinality(want)
         IN /\ Len(fs) >= n
            /\ { fs[i] : i \in 1..n } = want
            /\ AsClaimed(Tail(paths), SubSeq(fs, n + 1, Len(fs)))

\* C9: for paths that all exist, collect_files returns the named files as
\* given and, for each directory, exactly the files ending in .sql below it.
C9_Original == ReachedLintLoop => AsClaimed(args.paths, files)

\* C10: with --list-presets, --list-rules or --show-rule given, nothing is
\* collected, linted or reported; --list-presets returns with status 0
\* before the configuration file is resolved or checked and before
\* config.load_config and rule.load_rules; --list-rules wins over
\* --show-rule; and both print only after one config.load_config and one
\* rule.load_rules.
C10_Introspection ==
    /\ (args.listPresets \/ args.listRules \/ args.showRule # None) =>
           (~collected /\ lintLog = <<>> /\ reports = <<>>)
    /\ (args.listPresets /\ pc # "start") =>
           /\ pc = "returned"
           /\ exit = <<0>>
           /\ err = None
           /\ output = << "presets" >>
           /\ config_file = NoPath
           /\ cfgLoads = 0
           /\ loadCalls = <<>>
    /\ "presets" \in Range(output) => args.listPresets
    /\ args.listRules =>
           ("rule_detail" \notin Range(output) /\ err # "unknown_rule")
    /\ "rule_list" \in Range(output) => args.listRules
    /\ ("rule_detail" \in Range(output) \/ err = "unknown_rule") =>
           args.showRule # None
    /\ ( \/ "rule_list" \in Range(output)
         \/ "rule_detail" \in Range(output)
         \/ err = "unknown_rule" ) =>
           (cfgLoads = 1 /\ Len(loadCalls) = 1 /\ ~args.listPresets)

\* --list-presets returned with status 0 although --config names a missing
\* file, --list-rules and --show-rule were given too, and PATHS is not empty.
C10_Witness ==
    /\ args.listPresets
    /\ args.listRules
    /\ args.showRule = "Bogus"
    /\ ExplicitConfigMissing
    /\ args.paths # <<>>
    /\ exit = <<0>>
    /\ output = << "presets" >>

====
